---- MODULE Spec2Model ----
(***************************************************************************)
(* Model of the ReplaceVerifierFuns module pass                            *)
(* (transforms/ReplaceVerifierFuns.cpp): collection of the call sites of   *)
(* __VERIFIER_nondet_* / malloc* / calloc* declarations, indexing of the   *)
(* referenced source lines, and the two rewrites (replaceCall,             *)
(* handleAlloc) that register memory with klee_make_nondet.                *)
(*                                                                         *)
(* Strings are sequences of one-character strings, so that prefix tests,   *)
(* tokenisation, concatenation and std::to_string are computed.            *)
(***************************************************************************)
EXTENDS Integers, Sequences, FiniteSets, TLC

\* ---- bounds of the model ------------------------------------------------
\* number of instructions of interest in the input program unit
MaxSites == 2
\* number of whitespace-separated tokens of a line given to getName
MaxTokens == 4

\* ---- string literals of the source ----------------------------------------
S_VERIFIER_nondet_ == <<"_", "_", "V", "E", "R", "I", "F", "I", "E", "R", "_", "n", "o", "n", "d", "e", "t", "_">>
S_VERIFIER == <<"_", "_", "V", "E", "R", "I", "F", "I", "E", "R">>
S_malloc == <<"m", "a", "l", "l", "o", "c">>
S_calloc == <<"c", "a", "l", "l", "o", "c">>
S_klee_make_nondet == <<"k", "l", "e", "e", "_", "m", "a", "k", "e", "_", "n", "o", "n", "d", "e", "t">>
S_dynalloc == <<"d", "y", "n", "a", "l", "l", "o", "c">>
S_placeholder == <<"-", "-">>
S_eq == <<"=">>
N_nondet_int == <<"_", "_", "V", "E", "R", "I", "F", "I", "E", "R", "_", "n", "o", "n", "d", "e", "t", "_", "i", "n", "t">>
N_nondet_pchar == <<"_", "_", "V", "E", "R", "I", "F", "I", "E", "R", "_", "n", "o", "n", "d", "e", "t", "_", "p", "c", "h", "a", "r">>
N_calloc_array == <<"c", "a", "l", "l", "o", "c", "_", "a", "r", "r", "a", "y">>
N_malloc_wrapper == <<"m", "a", "l", "l", "o", "c", "_", "w", "r", "a", "p", "p", "e", "r">>
N_ext == <<"e", "x", "t">>
N_foo == <<"f", "o", "o">>
N_bar == <<"b", "a", "r">>
L_malloc == <<"p", " ", "=", " ", "m", "a", "l", "l", "o", "c", "(", "4", "0", ")", ";">>
L_cast == <<"y", " ", "=", " ", "(", "i", "n", "t", ")", " ", "_", "_", "V", "E", "R", "I", "F", "I", "E", "R", "_", "n", "o", "n", "d", "e", "t", "_", "i", "n", "t", "(", ")", ";">>
L_calloc == <<"b", "u", "f", " ", "=", " ", "c", "a", "l", "l", "o", "c", "(", "n", ",", " ", "8", ")", ";">>
L_nondet == <<"i", "n", "t", " ", "x", " ", "=", " ", "_", "_", "V", "E", "R", "I", "F", "I", "E", "R", "_", "n", "o", "n", "d", "e", "t", "_", "i", "n", "t", "(", ")", ";">>
T_int == <<"i", "n", "t">>
T_x == <<"x">>
T_call == <<"_", "_", "V", "E", "R", "I", "F", "I", "E", "R", "_", "n", "o", "n", "d", "e", "t", "_", "i", "n", "t", "(", ")", ";">>
T_castint == <<"(", "i", "n", "t", ")">>
T_xeq == <<"x", "=">>
T_short == <<"_", "_", "V", "E", "R", "I", "F", "I", "E", "R", "_", "n", "o", "n", "d", "e">>
R_foo_x_10 == <<"f", "o", "o", ":", "x", ":", "1", "0">>

\* std::string::compare(0, 18, ...) length argument
PrefixLen == 18
\* terminator appended by ConstantDataArray::getString
NUL == "NUL"
\* the characters operator>> skips (std::isspace)
Whitespace == {" ", "\t", "\n", "\r", "\f"}

\* ---- string helpers -------------------------------------------------------
Min(a, b) == IF a < b THEN a ELSE b

Range(s) == {s[i] : i \in DOMAIN s}

\* StringRef::startswith
startswith(s, p) == Len(s) >= Len(p) /\ SubSeq(s, 1, Len(p)) = p

\* std::string::compare(0, n, str) == 0
compare0(s, n, str) == SubSeq(s, 1, Min(n, Len(s))) = str

DigitChars == <<"0", "1", "2", "3", "4", "5", "6", "7", "8", "9">>

RECURSIVE to_string(_)
\* std::to_string(unsigned)
to_string(n) ==
  IF n < 10 THEN <<DigitChars[n + 1]>>
  ELSE to_string(n \div 10) \o <<DigitChars[(n % 10) + 1]>>

RECURSIVE SkipWs(_)
\* operator>> : skip leading whitespace
SkipWs(s) ==
  IF s # <<>> /\ Head(s) \in Whitespace THEN SkipWs(Tail(s)) ELSE s

RECURSIVE TakeWord(_)
\* operator>> : characters up to the next whitespace
TakeWord(s) ==
  IF s = <<>> \/ Head(s) \in Whitespace THEN <<>>
  ELSE <<Head(s)>> \o TakeWord(Tail(s))

\* one extraction "iss >> sub": ok is the stream state afterwards, sub is
\* left untouched when the extraction fails
Extract(stream, sub) ==
  LET s == SkipWs(stream)
      w == TakeWord(s)
  IN IF w = <<>>
     THEN [ok |-> FALSE, sub |-> sub, rest |-> <<>>]
     ELSE [ok |-> TRUE, sub |-> w, rest |-> SubSeq(s, Len(w) + 1, Len(s))]

RECURSIVE ScanForEq(_, _, _)
\* the while loop of getName; var = std::move(sub) leaves sub empty
ScanForEq(stream, sub, var) ==
  LET x == Extract(stream, sub)
  IN IF ~x.ok THEN [sub |-> x.sub, var |-> var, rest |-> x.rest]
     ELSE IF x.sub = S_eq THEN [sub |-> x.sub, var |-> var, rest |-> x.rest]
     ELSE ScanForEq(x.rest, <<>>, x.sub)

\* faulty variant: the check of the token after "=" is dropped
NoPrefixTest(sub) == TRUE

\* sub.compare(0, 18, "__VERIFIER_nondet_") == 0
IsNondetToken(sub) == compare0(sub, PrefixLen, S_VERIFIER_nondet_)

\* static std::string getName(const std::string& line)
getName(line) ==
  LET r == ScanForEq(line, <<>>, <<>>)
  IN IF r.var # <<>> /\ r.sub = S_eq
     THEN LET y == Extract(r.rest, r.sub)
          IN IF IsNondetToken(y.sub) THEN r.var ELSE S_placeholder
     ELSE S_placeholder

\* name = parent_name + ":" + var + ":" + std::to_string(line)
DerivedName(parent_name, var, line) ==
  parent_name \o <<":">> \o var \o <<":">> \o to_string(line)

\* ConstantDataArray::getString(ctx, name) : null-terminated array
getString(name) == name \o <<NUL>>

\* the C string held by a name constant
CString(init) == SubSeq(init, 1, Len(init) - 1)

\* ---- the program unit ---------------------------------------------------
\* operands of an instruction
Fn(name) == [k |-> "fn", n |-> 0, f |-> name, t |-> ""]
InstRef(i) == [k |-> "inst", n |-> i, f |-> <<>>, t |-> ""]
ConstInt(ty, c) == [k |-> "const", n |-> c, f |-> <<>>, t |-> ty]
GlobalRef(g) == [k |-> "global", n |-> g, f |-> <<>>, t |-> "i8*"]
Param(i) == [k |-> "param", n |-> i, f |-> <<>>, t |-> ""]

Instr(fn, op, callee, args, ty, hasLoc, line, attrs) ==
  [fn |-> fn, op |-> op, callee |-> callee, args |-> args, ty |-> ty,
   hasLoc |-> hasLoc, line |-> line, attrs |-> attrs, name |-> <<>>]

\* instructions an input unit is built from: direct calls of the stubs and
\* allocation functions with and without debug location, calls that pass a
\* declaration as an argument, a store of a declaration's address, a call of
\* a defined function with an allocation-like name, an unrelated call
SiteShapes ==
  { Instr(N_foo, "call", N_nondet_int, <<>>, "i32", TRUE, 10, "zeroext"),
    Instr(N_foo, "call", N_nondet_pchar, <<>>, "ptr", FALSE, 0, ""),
    Instr(N_bar, "call", N_nondet_int, <<>>, "i32", TRUE, 0, ""),
    Instr(N_foo, "call", N_nondet_int, <<>>, "i32", TRUE, 2, ""),
    Instr(N_bar, "call", S_malloc, <<ConstInt("i64", 40)>>, "ptr", TRUE, 1, ""),
    Instr(N_foo, "call", S_malloc, <<Param(1)>>, "ptr", FALSE, 0, "noalias"),
    Instr(N_foo, "call", S_calloc, <<Param(1), ConstInt("i64", 8)>>, "ptr",
          TRUE, 3, ""),
    Instr(N_foo, "call", N_calloc_array, <<Param(1), ConstInt("i64", 8)>>,
          "ptr", TRUE, 3, ""),
    Instr(N_foo, "call", N_ext, <<Fn(N_nondet_int)>>, "i32", TRUE, 2, ""),
    Instr(N_foo, "call", N_ext, <<Fn(N_nondet_int), Fn(N_nondet_int)>>, "i32",
          FALSE, 0, ""),
    Instr(N_bar, "call", N_ext, <<Fn(S_malloc), Fn(S_malloc)>>, "ptr",
          FALSE, 0, ""),
    Instr(N_foo, "call", N_ext, <<Fn(N_nondet_int), Fn(S_malloc)>>, "ptr",
          FALSE, 0, ""),
    Instr(N_foo, "store", <<>>, <<Fn(N_nondet_int), Param(2)>>, "void",
          FALSE, 0, ""),
    Instr(N_foo, "call", N_malloc_wrapper, <<ConstInt("i64", 8)>>, "ptr",
          TRUE, 1, ""),
    Instr(N_bar, "call", N_ext, <<ConstInt("i32", 5)>>, "i32", TRUE, 1, "") }

\* the functions of the unit in module order
InputFunctions ==
  << [name |-> N_nondet_int, isDeclaration |-> TRUE],
     [name |-> N_nondet_pchar, isDeclaration |-> TRUE],
     [name |-> S_malloc, isDeclaration |-> TRUE],
     [name |-> S_calloc, isDeclaration |-> TRUE],
     [name |-> N_calloc_array, isDeclaration |-> TRUE],
     [name |-> N_ext, isDeclaration |-> TRUE],
     [name |-> N_malloc_wrapper, isDeclaration |-> FALSE],
     [name |-> N_foo, isDeclaration |-> FALSE],
     [name |-> N_bar, isDeclaration |-> FALSE] >>

\* functions whose bodies are modelled
Definitions == <<N_foo, N_bar>>

\* the source texts the pass may be pointed at
FileLong ==
  <<L_malloc, L_cast, L_calloc, <<>>, <<>>, <<>>, <<>>, <<>>, <<>>, L_nondet>>
FileShort == <<L_malloc, L_cast>>
Sources ==
  { [open |-> FALSE, text |-> <<>>],
    [open |-> TRUE, text |-> FileShort],
    [open |-> TRUE, text |-> FileLong] }

VARIABLES
  \* inputs of one run
  sites,        \* the instructions of interest of the input unit
  ndebug,       \* the pass is built with assertions compiled out
  source,       \* the file named by -replace-verifier-funs-source
  ptrBits,      \* DataLayout::getPointerSizeInBits
  \* the program unit
  functions,    \* Module function list
  bodies,       \* instruction list of each defined function
  instrs,       \* the instructions that exist, by identity
  globals,      \* global variables added to the module
  nextId,       \* identity of the next instruction created
  \* the pass object
  calls_to_replace,
  allocs_to_handle,
  lines_nums,
  lines,
  vms,          \* _vms
  size_t_Ty,    \* _size_t_Ty
  call_identifier,
  alloc_call_identifier,  \* static local of handleAlloc
  \* control of runOnModule
  pc, fi, ri, ai, changed,
  \* a single application of getName
  gtoks, gsep, gpc, gres

unitVars == <<functions, bodies, instrs, globals, nextId>>
passVars == <<calls_to_replace, allocs_to_handle, lines_nums, lines, vms,
              size_t_Ty, call_identifier, alloc_call_identifier>>
inputVars == <<sites, ndebug, source, ptrBits>>
ctlVars == <<pc, fi, ri, ai, changed>>
gVars == <<gtoks, gsep, gpc, gres>>
vars == <<inputVars, unitVars, passVars, ctlVars, gVars>>

\* ---- the input unit built from the chosen instructions ------------------
RECURSIVE SitesIn(_, _, _)
\* identities (positions) of the chosen instructions located in function fn
SitesIn(ss, fn, i) ==
  IF i > Len(ss) THEN <<>>
  ELSE (IF ss[i].fn = fn THEN <<i>> ELSE <<>>) \o SitesIn(ss, fn, i + 1)

RetId(ss, fn) == Len(ss) + (IF fn = N_foo THEN 1 ELSE 2)

RECURSIVE ValueRefs(_, _)
ValueRefs(ss, ids) ==
  IF ids = <<>> THEN <<>>
  ELSE (IF ss[Head(ids)].ty # "void" THEN <<InstRef(Head(ids))>> ELSE <<>>)
       \o ValueRefs(ss, Tail(ids))

\* every function body ends with an instruction that reads the results of
\* the calls before it
InputBodies(ss) ==
  [fn \in Range(Definitions) |-> SitesIn(ss, fn, 1) \o <<RetId(ss, fn)>>]

InputInstrs(ss) ==
  [i \in 1..(Len(ss) + 2) |->
     IF i <= Len(ss) THEN ss[i]
     ELSE LET fn == IF i = Len(ss) + 1 THEN N_foo ELSE N_bar
          IN Instr(fn, "ret", <<>>, ValueRefs(ss, SitesIn(ss, fn, 1)), "void",
                   FALSE, 0, "")]

\* ---- queries on the unit --------------------------------------------------
\* operand list of an instruction; the callee is the last operand of a call
Operands(I) == IF I.op = "call" THEN I.args \o <<Fn(I.callee)>> ELSE I.args

\* CI->getOperand(i)
getOperand(I, i) == Operands(I)[i + 1]

\* the instruction is linked into a function body
Live(id) == \E fn \in DOMAIN bodies : id \in Range(bodies[fn])

\* CI->getParent()->getParent()->getName()
ParentName(id) == CHOOSE fn \in DOMAIN bodies : id \in Range(bodies[fn])

IndexOf(s, x) == CHOOSE i \in DOMAIN s : s[i] = x

RECURSIVE UsesInOps(_, _, _)
UsesInOps(ops, name, id) ==
  IF ops = <<>> THEN <<>>
  ELSE (IF Head(ops) = Fn(name) THEN <<id>> ELSE <<>>)
       \o UsesInOps(Tail(ops), name, id)

RECURSIVE UsesInBody(_, _, _)
UsesInBody(ins, body, name) ==
  IF body = <<>> THEN <<>>
  ELSE UsesInOps(Operands(ins[Head(body)]), name, Head(body))
       \o UsesInBody(ins, Tail(body), name)

\* F.use_begin() .. F.use_end() : the users of F, one entry per use
use_list(name) ==
  UsesInBody(instrs, bodies[N_foo], name) \o UsesInBody(instrs, bodies[N_bar], name)

\* M.getDataLayout().getTypeAllocSize(T)
getTypeAllocSize(ty) ==
  CASE ty = "i8" -> 1
    [] ty = "i32" -> 4
    [] ty = "i64" -> 8
    [] ty = "ptr" -> ptrBits \div 8

\* get_size_t : the cached type, or the one chosen from the pointer width
get_size_t ==
  IF size_t_Ty # "none" THEN size_t_Ty
  ELSE IF ptrBits > 32 THEN "i64" ELSE "i32"

\* get_verifier_make_nondet : the function list after getOrInsertFunction
get_verifier_make_nondet ==
  IF vms # "none" \/ \E i \in DOMAIN functions : functions[i].name = S_klee_make_nondet
  THEN functions
  ELSE Append(functions, [name |-> S_klee_make_nondet, isDeclaration |-> TRUE])

\* ---- collection : runOnFunction / handleCall ------------------------------
\* dyn_cast<CallInst>(use)
isCallInst(id) == instrs[id].op = "call"

\* handleCall(F, CI, ismalloc) on the two worklists and the set of lines
handleCall(c, CI, ismalloc) ==
  LET I == instrs[CI]
      line == IF I.hasLoc THEN I.line ELSE 0
  IN [calls |-> IF ismalloc THEN c.calls ELSE Append(c.calls, <<line, CI>>),
      allocs |-> IF ismalloc THEN Append(c.allocs, <<line, CI>>) ELSE c.allocs,
      nums |-> IF I.hasLoc THEN c.nums \cup {I.line} ELSE c.nums]

RECURSIVE VisitUses(_, _, _)
\* the loop over the uses of F
VisitUses(c, uses, ismalloc) ==
  IF uses = <<>> THEN c
  ELSE VisitUses(IF isCallInst(Head(uses))
                 THEN handleCall(c, Head(uses), ismalloc) ELSE c,
                 Tail(uses), ismalloc)

\* the name patterns of runOnFunction
Recognized(name) ==
  \/ startswith(name, S_VERIFIER_nondet_)
  \/ startswith(name, S_malloc)
  \/ startswith(name, S_calloc)

\* one iteration of "for (auto& F : M) runOnFunction(F)"
RunOnFunction ==
  /\ pc = "collect"
  /\ LET F == functions[fi]
         c0 == [calls |-> calls_to_replace, allocs |-> allocs_to_handle,
                nums |-> lines_nums]
         c == IF ~F.isDeclaration \/ ~Recognized(F.name) THEN c0
              ELSE VisitUses(c0, use_list(F.name),
                             ~startswith(F.name, S_VERIFIER))
     IN /\ calls_to_replace' = c.calls
        /\ allocs_to_handle' = c.allocs
        /\ lines_nums' = c.nums
  /\ fi' = fi + 1
  /\ pc' = IF fi = Len(functions) THEN "mapLines" ELSE "collect"
  /\ UNCHANGED <<inputVars, unitVars, lines, vms, size_t_Ty, call_identifier,
                 alloc_call_identifier, ri, ai, changed, gVars>>

\* ---- mapLines -------------------------------------------------------------
EmptyLines == [n \in {} |-> <<>>]

\* faulty variant: an unreadable file is tolerated and no line is indexed
mapLinesNoAbort(nums, calls, src, nd) ==
  IF nums = {}
  THEN [pc |-> IF ~nd /\ calls # <<>> THEN "assert_failed" ELSE "ok",
        lines |-> EmptyLines]
  ELSE LET ls == [n \in {m \in nums : m >= 1 /\ m <= Len(src.text)} |->
                    src.text[n]]
       IN [pc |-> IF ~nd /\ Cardinality(DOMAIN ls) # Cardinality(nums)
                  THEN "assert_failed" ELSE "ok",
           lines |-> ls]

\* mapLines : outcome and the map from line number to line text
mapLines(nums, calls, src, nd) ==
  IF nums = {}
  THEN [pc |-> IF ~nd /\ calls # <<>> THEN "assert_failed" ELSE "ok",
        lines |-> EmptyLines]
  ELSE IF ~src.open
  THEN [pc |-> "aborted", lines |-> EmptyLines]
  ELSE LET ls == [n \in {m \in nums : m >= 1 /\ m <= Len(src.text)} |->
                    src.text[n]]
       IN [pc |-> IF ~nd /\ Cardinality(DOMAIN ls) # Cardinality(nums)
                  THEN "assert_failed" ELSE "ok",
           lines |-> ls]

\* the phase runOnModule enters once the loop over a worklist is finished
AfterMapLines ==
  IF calls_to_replace # <<>> THEN "replace"
  ELSE IF allocs_to_handle # <<>> THEN "allocs" ELSE "return"

AfterReplaceCalls == IF allocs_to_handle # <<>> THEN "allocs" ELSE "return"

MapLines ==
  /\ pc = "mapLines"
  /\ LET r == mapLines(lines_nums, calls_to_replace, source, ndebug)
     IN /\ lines' = r.lines
        /\ pc' = IF r.pc = "ok" THEN AfterMapLines ELSE r.pc
  /\ UNCHANGED <<inputVars, unitVars, calls_to_replace, allocs_to_handle,
                 lines_nums, vms, size_t_Ty, call_identifier,
                 alloc_call_identifier, fi, ri, ai, changed, gVars>>

\* ---- the rewrites ---------------------------------------------------------
\* CI->replaceAllUsesWith(LI)
replaceAllUsesWith(ins, old, new) ==
  [i \in DOMAIN ins |->
     [ins[i] EXCEPT !.args =
        [j \in DOMAIN @ |-> IF @[j] = InstRef(old) THEN InstRef(new) ELSE @[j]]]]

\* CI->eraseFromParent() on the instruction table
eraseInstr(ins, id) == [i \in DOMAIN ins \ {id} |-> ins[i]]

\* faulty variant: the load is inserted before the registration call
spliceLoadFirst(body, CI, AI, CastI, new_CI, LI) ==
  LET p == IndexOf(body, CI)
  IN SubSeq(body, 1, p - 1) \o <<AI, CastI, LI, new_CI>>
     \o SubSeq(body, p + 1, Len(body))

\* new_CI->insertBefore(CI); CastI->insertBefore(new_CI);
\* AI->insertBefore(CastI); LI->insertAfter(new_CI); CI->eraseFromParent()
spliceReplacement(body, CI, AI, CastI, new_CI, LI) ==
  LET p == IndexOf(body, CI)
  IN SubSeq(body, 1, p - 1) \o <<AI, CastI, new_CI, LI>>
     \o SubSeq(body, p + 1, Len(body))

\* faulty variant: the counter is read before it is incremented
postIncrement(c) == c

\* ++call_identifier (an unsigned; a worklist is far shorter than its range)
preIncrement(c) == c + 1

\* replaceCalls : one iteration of the loop, on a call that still exists
ReplaceCall ==
  /\ pc = "replace"
  /\ Live(calls_to_replace[ri][2])
  /\ LET line_num == calls_to_replace[ri][1]
         CI == calls_to_replace[ri][2]
         var == IF line_num \in DOMAIN lines THEN getName(lines[line_num])
                ELSE <<>>
         parent_name == ParentName(CI)
         name == DerivedName(parent_name, var, line_num)
         T == instrs[CI].ty
         nameG == Len(globals) + 1
         AI == nextId
         CastI == nextId + 1
         new_CI == nextId + 2
         LI == nextId + 3
         id == preIncrement(call_identifier)
         added ==
           (AI :> Instr(parent_name, "alloca", <<>>, <<>>, T, FALSE, 0, ""))
           @@ (CastI :> Instr(parent_name, "cast", <<>>, <<InstRef(AI)>>,
                              "i8*", FALSE, 0, ""))
           @@ (new_CI :> Instr(parent_name, "call", S_klee_make_nondet,
                               <<InstRef(CastI),
                                 ConstInt(get_size_t, getTypeAllocSize(T)),
                                 GlobalRef(nameG), ConstInt("i32", id)>>,
                               "void", instrs[CI].hasLoc, instrs[CI].line,
                               instrs[CI].attrs))
           @@ (LI :> [Instr(parent_name, "load", <<>>, <<InstRef(AI)>>, T,
                            FALSE, 0, "") EXCEPT !.name = name])
     IN /\ globals' = Append(globals, [init |-> getString(name),
                                       constant |-> TRUE,
                                       linkage |-> "private"])
        /\ functions' = get_verifier_make_nondet
        /\ instrs' = eraseInstr(replaceAllUsesWith(added @@ instrs, CI, LI), CI)
        /\ bodies' = [bodies EXCEPT ![parent_name] =
                        spliceReplacement(@, CI, AI, CastI, new_CI, LI)]
        /\ call_identifier' = id
  /\ nextId' = nextId + 4
  /\ size_t_Ty' = get_size_t
  /\ vms' = S_klee_make_nondet
  /\ ri' = ri + 1
  /\ pc' = IF ri = Len(calls_to_replace) THEN AfterReplaceCalls ELSE "replace"
  /\ UNCHANGED <<inputVars, calls_to_replace, allocs_to_handle, lines_nums,
                 lines, alloc_call_identifier, fi, ai, changed, gVars>>

\* faulty variant: the registration call is placed directly after the allocation
insertRegFirst(body, CI, Mul, CastI, new_CI) ==
  LET p == IndexOf(body, CI)
  IN SubSeq(body, 1, p) \o <<new_CI>> \o Mul \o <<CastI>>
     \o SubSeq(body, p + 1, Len(body))

\* CastI->insertAfter(CI); Mul->insertBefore(CastI);
\* new_CI->insertAfter(CastI)   (Mul is <<>> when no multiply is created)
insertAugmentation(body, CI, Mul, CastI, new_CI) ==
  LET p == IndexOf(body, CI)
  IN SubSeq(body, 1, p) \o Mul \o <<CastI, new_CI>>
     \o SubSeq(body, p + 1, Len(body))

\* CI->getCalledFunction()->getName().equals("calloc")
isCalloc(I) == I.callee = S_calloc

\* handleAllocs : one iteration of the loop, on a call that still exists
HandleAlloc ==
  /\ pc = "allocs"
  /\ Live(allocs_to_handle[ai][2])
  /\ LET line_num == allocs_to_handle[ai][1]
         CI == allocs_to_handle[ai][2]
         parent_name == ParentName(CI)
         name == DerivedName(parent_name, S_dynalloc, line_num)
         nameG == Len(globals) + 1
         CastI == nextId
         Mul == nextId + 1
         new_CI == nextId + 2
         mul == isCalloc(instrs[CI])
         nbytes == IF mul THEN InstRef(Mul) ELSE getOperand(instrs[CI], 0)
         id == preIncrement(alloc_call_identifier)
         added ==
           (CastI :> Instr(parent_name, "cast", <<>>, <<InstRef(CI)>>, "i8*",
                           FALSE, 0, ""))
           @@ (new_CI :> Instr(parent_name, "call", S_klee_make_nondet,
                               <<InstRef(CastI), nbytes, GlobalRef(nameG),
                                 ConstInt("i32", id)>>,
                               "void", FALSE, 0, ""))
           @@ (IF mul
               THEN (Mul :> Instr(parent_name, "mul", <<>>,
                                  <<getOperand(instrs[CI], 0),
                                    getOperand(instrs[CI], 1)>>,
                                  "i64", FALSE, 0, ""))
               ELSE <<>>)
     IN /\ globals' = Append(globals, [init |-> getString(name),
                                       constant |-> TRUE,
                                       linkage |-> "private"])
        /\ functions' = get_verifier_make_nondet
        /\ instrs' = added @@ instrs
        /\ bodies' = [bodies EXCEPT ![parent_name] =
                        insertAugmentation(@, CI, IF mul THEN <<Mul>> ELSE <<>>,
                                           CastI, new_CI)]
        /\ alloc_call_identifier' = id
  /\ nextId' = nextId + 3
  /\ size_t_Ty' = get_size_t
  /\ vms' = S_klee_make_nondet
  /\ ai' = ai + 1
  /\ pc' = IF ai = Len(allocs_to_handle) THEN "return" ELSE "allocs"
  /\ UNCHANGED <<inputVars, calls_to_replace, allocs_to_handle, lines_nums,
                 lines, call_identifier, fi, ri, changed, gVars>>

\* what a use of an erased (freed) instruction may do: the process dies on
\* the stale parent pointer, or anything else
UseAfterFreeOutcomes == {"crashed", "undefined"}

\* an iteration of replaceCalls or handleAllocs whose worklist entry points
\* to an instruction an earlier iteration erased
UseAfterFree ==
  /\ \/ pc = "replace" /\ ~Live(calls_to_replace[ri][2])
     \/ pc = "allocs" /\ ~Live(allocs_to_handle[ai][2])
  /\ pc' \in UseAfterFreeOutcomes
  /\ UNCHANGED <<inputVars, unitVars, passVars, fi, ri, ai, changed, gVars>>

\* return !calls_to_replace.empty() || !allocs_to_handle.empty()
Return ==
  /\ pc = "return"
  /\ changed' = (calls_to_replace # <<>> \/ allocs_to_handle # <<>>)
  /\ pc' = "done"
  /\ UNCHANGED <<inputVars, unitVars, passVars, fi, ri, ai, gVars>>

\* ---- one run of the pass ------------------------------------------------
InputUnits == UNION {[1..n -> SiteShapes] : n \in 0..MaxSites}

Init ==
  /\ sites \in InputUnits
  /\ ndebug \in BOOLEAN
  /\ source \in Sources
  /\ ptrBits \in {32, 64}
  /\ functions = InputFunctions
  /\ bodies = InputBodies(sites)
  /\ instrs = InputInstrs(sites)
  /\ globals = <<>>
  /\ nextId = Len(sites) + 3
  /\ calls_to_replace = <<>>
  /\ allocs_to_handle = <<>>
  /\ lines_nums = {}
  /\ lines = EmptyLines
  /\ vms = "none"
  /\ size_t_Ty = "none"
  /\ call_identifier = 0
  /\ alloc_call_identifier = 0
  /\ pc = "collect"
  /\ fi = 1
  /\ ri = 1
  /\ ai = 1
  /\ changed = FALSE
  /\ gtoks = <<>>
  /\ gsep = [mid |-> <<" ">>, pad |-> <<>>]
  /\ gpc = "off"
  /\ gres = <<>>

Next ==
  \/ RunOnFunction
  \/ MapLines
  \/ ReplaceCall
  \/ HandleAlloc
  \/ UseAfterFree
  \/ Return

Spec == Init /\ [][Next]_vars

\* ---- getName applied to one line ------------------------------------------
Tokens == {T_int, T_x, S_eq, T_call, T_castint, T_xeq, T_short}

Separators ==
  { [mid |-> <<" ">>, pad |-> <<>>],
    [mid |-> <<"\t", " ">>, pad |-> <<" ">>] }

RECURSIVE Join(_, _)
Join(toks, mid) ==
  IF toks = <<>> THEN <<>>
  ELSE IF Len(toks) = 1 THEN Head(toks)
  ELSE Head(toks) \o mid \o Join(Tail(toks), mid)

\* the text of a line made of the tokens
LineText(toks, sep) == sep.pad \o Join(toks, sep.mid) \o sep.pad

InitGetName ==
  /\ gtoks \in UNION {[1..n -> Tokens] : n \in 0..MaxTokens}
  /\ gsep \in Separators
  /\ gpc = "call"
  /\ gres = <<>>
  /\ sites = <<>>
  /\ ndebug = TRUE
  /\ source = [open |-> FALSE, text |-> <<>>]
  /\ ptrBits = 64
  /\ functions = InputFunctions
  /\ bodies = InputBodies(<<>>)
  /\ instrs = InputInstrs(<<>>)
  /\ globals = <<>>
  /\ nextId = 3
  /\ calls_to_replace = <<>>
  /\ allocs_to_handle = <<>>
  /\ lines_nums = {}
  /\ lines = EmptyLines
  /\ vms = "none"
  /\ size_t_Ty = "none"
  /\ call_identifier = 0
  /\ alloc_call_identifier = 0
  /\ pc = "off"
  /\ fi = 1
  /\ ri = 1
  /\ ai = 1
  /\ changed = FALSE

CallGetName ==
  /\ gpc = "call"
  /\ gres' = getName(LineText(gtoks, gsep))
  /\ gpc' = "done"
  /\ UNCHANGED <<inputVars, unitVars, passVars, ctlVars, gtoks, gsep>>

NextGetName == CallGetName

SpecGetName == InitGetName /\ [][NextGetName]_vars

\* ---- properties ----------------------------------------------------------
Terminal == {"done", "aborted", "assert_failed", "crashed", "undefined"}

\* registration calls of the unit
IsReg(I) == I.op = "call" /\ I.callee = S_klee_make_nondet
Regs == {i \in DOMAIN instrs : IsReg(instrs[i])}
RegIdentifier(i) == instrs[i].args[4].n

\* registration calls emitted by replaceCall register a stack slot
NondetRegs ==
  {i \in Regs : instrs[instrs[instrs[i].args[1].n].args[1].n].op = "alloca"}

\* registration calls that register the result of the call CI
RegsFor(CI) == {i \in Regs : instrs[instrs[i].args[1].n].args = <<InstRef(CI)>>}

\* the unit is the input unit
UnitUnchanged ==
  /\ functions = InputFunctions
  /\ bodies = InputBodies(sites)
  /\ instrs = InputInstrs(sites)
  /\ globals = <<>>

\* the callee of a collected call is a bodyless function with a recognized name
CalleeIsRecognizedDeclaration(I) ==
  /\ I.op = "call"
  /\ \E i \in DOMAIN InputFunctions :
       /\ InputFunctions[i].name = I.callee
       /\ InputFunctions[i].isDeclaration
       /\ Recognized(I.callee)

\* every collected instruction is a direct call of a recognized declaration
\* and is collected once
DirectCallsOnly ==
  LET all == calls_to_replace \o allocs_to_handle
  IN /\ \A k \in DOMAIN all : CalleeIsRecognizedDeclaration(sites[all[k][2]])
     /\ \A k, l \in DOMAIN all : k # l => all[k][2] # all[l][2]

\* C1: each iteration of replaceCalls emits one registration call, the k-th
\* iteration gives it identifier k, and the identifiers emitted by
\* replaceCall so far are exactly 1..k without repeats
C1_IdentifiersContiguous ==
  [][ri' = ri + 1 =>
       LET new == {i \in DOMAIN instrs' \ DOMAIN instrs : IsReg(instrs'[i])}
           nd == {i \in DOMAIN instrs' :
                    /\ IsReg(instrs'[i])
                    /\ instrs'[instrs'[instrs'[i].args[1].n].args[1].n].op
                         = "alloca"}
       IN /\ Cardinality(new) = 1
          /\ \A i \in new : instrs'[i].args[4] = ConstInt("i32", ri)
          /\ Cardinality(nd) = ri
          /\ {instrs'[i].args[4].n : i \in nd} = 1..ri
          /\ (pc' \in {"allocs", "return"} => ri = Len(calls_to_replace))]_vars

C1_Witness ==
  /\ pc = "done"
  /\ Len(calls_to_replace) = 2
  /\ {RegIdentifier(i) : i \in NondetRegs} = {1, 2}

\* C2: no two registration calls of the unit carry the same identifier
\* (stated for the runs that collected direct calls only, each once, none
\* of them at line 0)
C2_GloballyUnique ==
  (DirectCallsOnly /\ 0 \notin lines_nums) =>
    \A i, j \in Regs : i # j => RegIdentifier(i) # RegIdentifier(j)

\* C3: replaceCall removes the call and puts alloca, cast, registration call
\* and load in its place in that order; every operand that read the call
\* reads the load
C3_ReplacementSequence ==
  [][(pc = "replace" /\ ri' = ri + 1) =>
       LET CI == calls_to_replace[ri][2]
           f == ParentName(CI)
           b == bodies[f]
           c == bodies'[f]
           p == IndexOf(b, CI)
       IN /\ CI \notin DOMAIN instrs'
          /\ \A g \in DOMAIN bodies' : CI \notin Range(bodies'[g])
          /\ \A g \in DOMAIN bodies \ {f} : bodies'[g] = bodies[g]
          /\ Len(c) = Len(b) + 3
          /\ SubSeq(c, 1, p - 1) = SubSeq(b, 1, p - 1)
          /\ SubSeq(c, p + 4, Len(c)) = SubSeq(b, p + 1, Len(b))
          /\ {c[p], c[p + 1], c[p + 2], c[p + 3]} \cap DOMAIN instrs = {}
          /\ instrs'[c[p]].op = "alloca"
          /\ instrs'[c[p]].ty = instrs[CI].ty
          /\ instrs'[c[p + 1]].op = "cast"
          /\ instrs'[c[p + 1]].args = <<InstRef(c[p])>>
          /\ IsReg(instrs'[c[p + 2]])
          /\ instrs'[c[p + 2]].args[1] = InstRef(c[p + 1])
          /\ instrs'[c[p + 3]].op = "load"
          /\ instrs'[c[p + 3]].ty = instrs[CI].ty
          /\ instrs'[c[p + 3]].args = <<InstRef(c[p])>>
          /\ \A i \in DOMAIN instrs \ {CI} :
               /\ i \in DOMAIN instrs'
               /\ \A j \in DOMAIN instrs[i].args :
                    instrs'[i].args[j] =
                      IF instrs[i].args[j] = InstRef(CI)
                      THEN InstRef(c[p + 3]) ELSE instrs[i].args[j]]_vars

C3_Witness ==
  /\ pc = "done"
  /\ \E p \in DOMAIN bodies[N_foo] :
       /\ p + 4 <= Len(bodies[N_foo])
       /\ instrs[bodies[N_foo][p]].op = "alloca"
       /\ instrs[bodies[N_foo][p + 1]].op = "cast"
       /\ IsReg(instrs[bodies[N_foo][p + 2]])
       /\ instrs[bodies[N_foo][p + 3]].op = "load"
       /\ instrs[bodies[N_foo][p + 4]].op = "ret"
       /\ InstRef(bodies[N_foo][p + 3]) \in Range(instrs[bodies[N_foo][p + 4]].args)

\* C4 as stated: once the pass is done every collected allocation call is
\* still present, has exactly one registration call, and that call is the
\* instruction right after the allocation call
C4_RegistrationDirectlyAfterCall ==
  pc = "done" =>
    \A k \in DOMAIN allocs_to_handle :
      LET CI == allocs_to_handle[k][2]
          b == bodies[ParentName(CI)]
          p == IndexOf(b, CI)
      IN /\ Live(CI)
         /\ instrs[CI] = sites[CI]
         /\ Cardinality(RegsFor(CI)) = 1
         /\ p < Len(b)
         /\ b[p + 1] \in RegsFor(CI)

\* C4 amended: handleAlloc leaves every existing instruction as it was, and
\* inserts one registration call directly after a new cast of the call's
\* result; the cast directly follows the call, or the inserted multiply
\* when the callee is named calloc
C4_RegistrationAfterCast ==
  [][(pc = "allocs" /\ ai' = ai + 1) =>
       LET CI == allocs_to_handle[ai][2]
           f == ParentName(CI)
           b == bodies[f]
           c == bodies'[f]
           p == IndexOf(b, CI)
           off == IF instrs[CI].callee = S_calloc THEN 1 ELSE 0
           new == DOMAIN instrs' \ DOMAIN instrs
       IN /\ \A i \in DOMAIN instrs : i \in DOMAIN instrs' /\ instrs'[i] = instrs[i]
          /\ \A g \in DOMAIN bodies \ {f} : bodies'[g] = bodies[g]
          /\ Len(c) = Len(b) + 2 + off
          /\ SubSeq(c, 1, p) = SubSeq(b, 1, p)
          /\ SubSeq(c, p + 3 + off, Len(c)) = SubSeq(b, p + 1, Len(b))
          /\ Cardinality({i \in new : IsReg(instrs'[i])}) = 1
          /\ {c[j] : j \in (p + 1)..(p + 2 + off)} = new
          /\ (off = 1 => instrs'[c[p + 1]].op = "mul")
          /\ instrs'[c[p + 1 + off]].op = "cast"
          /\ instrs'[c[p + 1 + off]].args = <<InstRef(CI)>>
          /\ IsReg(instrs'[c[p + 2 + off]])
          /\ instrs'[c[p + 2 + off]].args[1] = InstRef(c[p + 1 + off])]_vars

C4_Witness ==
  /\ pc = "done"
  /\ \E k \in DOMAIN allocs_to_handle :
       LET CI == allocs_to_handle[k][2]
           b == bodies[ParentName(CI)]
           p == IndexOf(b, CI)
       IN /\ instrs[CI].callee = S_calloc
          /\ p + 3 <= Len(b)
          /\ instrs[b[p + 1]].op = "mul"
          /\ instrs[b[p + 2]].op = "cast"
          /\ b[p + 3] \in RegsFor(CI)
  /\ \E k \in DOMAIN allocs_to_handle :
       LET CI == allocs_to_handle[k][2]
           b == bodies[ParentName(CI)]
           p == IndexOf(b, CI)
       IN /\ instrs[CI].callee = S_malloc
          /\ p + 2 <= Len(b)
          /\ instrs[b[p + 1]].op = "cast"
          /\ b[p + 2] \in RegsFor(CI)

\* C5: for every collected call of a recognized allocation declaration the
\* registered size is the product of the two arguments of a two-argument
\* call and the argument itself of a one-argument call
C5_RegisteredSize ==
  pc = "done" =>
    \A k \in DOMAIN allocs_to_handle :
      LET CI == allocs_to_handle[k][2]
          I == sites[CI]
      IN CalleeIsRecognizedDeclaration(I) =>
           \A r \in RegsFor(CI) :
             LET nbytes == instrs[r].args[2]
             IN IF Len(I.args) = 2
                THEN /\ nbytes.k = "inst"
                     /\ instrs[nbytes.n].op = "mul"
                     /\ instrs[nbytes.n].args = I.args
                ELSE nbytes = I.args[1]

\* name constant created for the k-th entry of a worklist
NameOfCall(k) == CString(globals[k].init)
NameOfAlloc(k) == CString(globals[Len(calls_to_replace) + k].init)

\* no collected call carries a debug location
NoCollectedLine ==
  /\ \A k \in DOMAIN calls_to_replace : ~sites[calls_to_replace[k][2]].hasLoc
  /\ \A k \in DOMAIN allocs_to_handle : ~sites[allocs_to_handle[k][2]].hasLoc

\* C6: when the collected calls (direct calls of recognized declarations)
\* have no debug line, the pass does not abort, and every one of them is
\* registered under the name "<EnclosingFunction>::0"
C6_NoLineStillRewritten ==
  (/\ pc \notin {"collect", "mapLines"}
   /\ NoCollectedLine
   /\ \A k \in DOMAIN calls_to_replace :
        CalleeIsRecognizedDeclaration(sites[calls_to_replace[k][2]])
   /\ \A k \in DOMAIN allocs_to_handle :
        CalleeIsRecognizedDeclaration(sites[allocs_to_handle[k][2]]))
  => /\ pc \notin {"aborted", "assert_failed"}
     /\ pc = "done" =>
          /\ Len(globals) = Len(calls_to_replace) + Len(allocs_to_handle)
          /\ \A k \in DOMAIN calls_to_replace :
               NameOfCall(k) =
                 sites[calls_to_replace[k][2]].fn \o <<":", ":", "0">>
          /\ \A k \in DOMAIN allocs_to_handle :
               NameOfAlloc(k) =
                 sites[allocs_to_handle[k][2]].fn \o <<":", ":", "0">>

C8_OnlyDirectCallsOnce == pc # "off" => DirectCallsOnly

\* the variable getName is specified to find in a sequence of tokens
FirstEq(toks) ==
  IF \E i \in DOMAIN toks : toks[i] = S_eq
  THEN CHOOSE i \in DOMAIN toks :
         toks[i] = S_eq /\ \A j \in 1..(i - 1) : toks[j] # S_eq
  ELSE 0

ExpectedName(toks) ==
  LET e == FirstEq(toks)
  IN IF /\ e > 1
        /\ e < Len(toks)
        /\ startswith(toks[e + 1], S_VERIFIER_nondet_)
     THEN toks[e - 1] ELSE S_placeholder

\* C9: getName returns the token before the first "=" when the token after
\* that "=" starts with "__VERIFIER_nondet_", and "--" otherwise; the line
\* "int x = __VERIFIER_nondet_int();" at line 10 of foo gives "foo:x:10"
C9_GetName ==
  /\ gpc = "done" => gres = ExpectedName(gtoks)
  /\ (gpc = "done" /\ gtoks = <<T_int, T_x, S_eq, T_call>>) =>
       DerivedName(N_foo, gres, 10) = R_foo_x_10

C9_Witness ==
  /\ gpc = "done"
  /\ gtoks = <<T_int, T_x, S_eq, T_call>>
  /\ gres = T_x

\* C10: after collection the requested lines are the non-zero debug lines of
\* the collected calls, never 0, and a successful read of a long enough file
\* retains as many lines as were requested
C10_RequestedLines ==
  pc # "collect" =>
    LET all == calls_to_replace \o allocs_to_handle
    IN /\ 0 \notin lines_nums
       /\ lines_nums = {sites[all[k][2]].line :
                          k \in {l \in DOMAIN all : /\ sites[all[l][2]].hasLoc
                                                    /\ sites[all[l][2]].line # 0}}
       /\ (/\ pc \notin {"mapLines", "aborted"}
           /\ lines_nums # {}
           /\ \A n \in lines_nums : n <= Len(source.text))
            => Cardinality(DOMAIN lines) = Cardinality(lines_nums)
====
